---- MODULE Spec2Model ----
(***************************************************************************)
(* A model of pytype's load_pytd.Loader (src/pytype/load_pytd.py): the     *)
(* module registry, the search over bundled definitions / pythonpath /     *)
(* standard library, the recursive dependency loading with eviction on     *)
(* failure, the lazy registry-wide completion sweep and the cached         *)
(* concatenated view.                                                      *)
(*                                                                         *)
(* Representation.  A dotted module name is the sequence of its            *)
(* components (the value of module_name.split(".")); the empty name ""     *)
(* is <<"">>.  A path is the sequence of its segments; path + ".pyi" is    *)
(* the path followed by the segment ".pyi".  A tree (pytd.TypeDeclUnit)    *)
(* is a heap object named by a handle [mod, gen, ver]: gen tells apart     *)
(* the trees of separate loads of one name, ver the successive results     *)
(* of Visit() during one load.  The tree object records, for every         *)
(* module it references, what the reference is bound to (None while        *)
(* ClassType.cls is None), and the same for its intra-module reference.    *)
(*                                                                         *)
(* Every public method of Loader is one action; the private methods are    *)
(* operators that thread a record of the loader's state (the registry,     *)
(* the heap, the cached view, the exception in flight, the value           *)
(* returned) through the calls in the order the code makes them.           *)
(***************************************************************************)
EXTENDS Naturals, Sequences, FiniteSets, TLC

VARIABLES
  options,        \* config.Options: pythonpath, imports_map, typeshed
  base_module,    \* Loader.base_module (None: a non-package)
  store,          \* the definitions shipped with pytype and with typeshed
  content,        \* what each module's source refers to
  disk,           \* the file system: non-directories and directories
  creatable,      \* files the environment may still create
  inputs,         \* the arguments the caller passes
  _modules,       \* Loader._modules: module name -> Module
  heap,           \* the trees alive: handle -> tree object
  _concatenated,  \* Loader._concatenated
  view_stale,     \* history: a view was built and the registry changed since
  last            \* history: the last public call, its outcome and its trace,
                  \* whether it repeats the call before it, whether it
                  \* rebuilt a stale view

vars == <<options, base_module, store, content, disk, creatable, inputs,
          _modules, heap, _concatenated, view_stale, last>>

env_vars == <<options, base_module, store, content, inputs>>

-----------------------------------------------------------------------------
(* Bounds *)

\* The largest number of modules one source refers to.
MaxDeps == 2

\* The largest level passed to import_relative.
MaxLevel == 3

-----------------------------------------------------------------------------
(* Names, paths, handles *)

NA == <<"a">>
NAB == <<"a", "b">>
NABC == <<"a", "b", "c">>
NM == <<"m">>
NMS == <<"m", "s">>
NX == <<"x">>
BUILTIN == <<"__builtin__">>
TYPING == <<"typing">>

\* The key "" of a module map, and the module name "".
EMPTY_NAME == <<"">>

\* The name of a tree handed to resolve_ast, which belongs to no module.
ADHOC == <<"<ast>">>

D1 == <<"d1">>
D2 == <<"d2">>
GEN == <<"gen", "m", ".pyi">>
GONE == <<"gen", "gone", ".pyi">>
GENDIR == <<"gen">>
DEVNULL == <<"/dev/null">>

\* Python's None, as a tree handle, as a name and as the cached view.
None == [mod |-> <<>>, gen |-> 0, ver |-> 0]
NoName == <<>>
NoView == [built |-> FALSE, parts |-> {}]

\* Loader.PREFIX + module_name
PREFIX == <<"pytd:">>

Range(s) == {s[i] : i \in DOMAIN s}

Front(s) == SubSeq(s, 1, Len(s) - 1)

\* path + ".pyi"
AddExt(path) == path \o <<".pyi">>

\* os.path.join(p, seg) for one more segment: an empty segment leaves a
\* trailing separator, and a segment after a trailing separator replaces it.
OsPathJoin2(p, seg) ==
  IF p = <<>> THEN (IF seg = "" THEN <<>> ELSE <<seg>>)
  ELSE IF p[Len(p)] = "" THEN Front(p) \o <<seg>>
  ELSE p \o <<seg>>

RECURSIVE OsPathJoin(_, _)
\* os.path.join(p, *segs)
OsPathJoin(p, segs) ==
  IF segs = <<>> THEN p
  ELSE OsPathJoin(OsPathJoin2(p, segs[1]), SubSeq(segs, 2, Len(segs)))

\* A path without its trailing separator: "d1/" names the directory "d1".
NormPath(p) == IF p # <<>> /\ p[Len(p)] = "" THEN Front(p) ELSE p

\* os.path.isdir, os.path.exists
IsDir(p) == NormPath(p) \in disk.dirs
Exists(p) == p \in disk.files \/ IsDir(p)

\* module_name.split(".") and ".".join(components), on names kept as their
\* components: "".split(".") is [""], so joining no component at all and
\* splitting again gives the one empty component.
Split(module_name) == module_name
Join(components) == IF components = <<>> THEN EMPTY_NAME ELSE components

\* SliceOffEnd, were the slice components[level:].
SliceOffStart(components, level) ==
  SubSeq(components, level + 1, Len(components))

\* components[0:-level] for level >= 1: Python clips the stop index at 0.
SliceOffEnd(components, level) ==
  IF level >= Len(components) THEN <<>>
  ELSE SubSeq(components, 1, Len(components) - level)

-----------------------------------------------------------------------------
(* The loader's state as the private methods see it.                       *)
(*   modules, heap, concatenated: the loader's fields and the trees;       *)
(*   exc, missing: the exception in flight ("" when none) and the name a   *)
(*     DependencyNotFoundError carries;                                    *)
(*   ret: the value the last call returned;                                *)
(*   stack: the modules whose _load_file is between registering the        *)
(*     module and returning; raised_stack: stack when exc was raised;      *)
(*   held: trees the caller still holds from the call before;              *)
(*   log: what the call did, in order.                                     *)

Event(ev, name, src, hit) == [ev |-> ev, name |-> name, src |-> src, hit |-> hit]

Log(st, ev, name, src, hit) ==
  [st EXCEPT !.log = Append(st.log, Event(ev, name, src, hit))]

Return(st, value) == [st EXCEPT !.ret = value]

Raise(st, exception, name) ==
  [st EXCEPT !.exc = exception, !.missing = name, !.raised_stack = st.stack,
             !.ret = None]

Failed(st) == st.exc # ""

\* A tree object.  refs: the module names its reference nodes name, each
\* with what the node is bound to; order: the order in which the names are
\* met; has_local: it has a reference to a class of its own module, bound
\* to local; templated: its signatures have type parameters.
TreeObject(order, has_local, templated) ==
  [refs |-> [n \in Range(order) |-> None], order |-> order,
   has_local |-> has_local, local |-> None, templated |-> templated]

\* pytd_utils.EmptyModule: a tree without declarations
EmptyTree == TreeObject(<<>>, FALSE, FALSE)

IsEmptyTree(obj) == obj.order = <<>> /\ ~obj.has_local

\* The least generation of `name` no live tree has.
FreshGen(st, name) ==
  LET used == {h.gen : h \in {x \in (DOMAIN st.heap) \cup st.held : x.mod = name}}
  IN CHOOSE k \in 0..Cardinality(used) :
       k \notin used /\ \A j \in 0..k : j = k \/ j \in used

\* A new tree object: returns its handle.
NewTree(st, name, obj) ==
  LET h == [mod |-> name, gen |-> FreshGen(st, name), ver |-> 0]
  IN Return([st EXCEPT !.heap = (h :> obj) @@ st.heap], h)

\* The tree a Visit() returns when the visitor changed something: a new
\* object, the next version of the tree it visited.
NewVersion(st, h, ver, obj) ==
  LET h2 == [h EXCEPT !.ver = ver]
  IN Return([st EXCEPT !.heap = (h2 :> obj) @@ st.heap], h2)

\* A tree has a reference node that is bound to nothing.
HasUnbound(hp, h) ==
  \/ \E n \in DOMAIN hp[h].refs : hp[h].refs[n] = None
  \/ hp[h].has_local /\ hp[h].local = None

\* {name: module.ast for name, module in self._modules.items()}
ModuleMap(st) == [n \in DOMAIN st.modules |-> st.modules[n].ast]

\* Module, were self.dirty False from the start.
CleanModule(module_name, filename, ast) ==
  [module_name |-> module_name, filename |-> filename, ast |-> ast, dirty |-> FALSE]

\* Module(module_name, filename, ast): dirty from the start
Module(module_name, filename, ast) ==
  [module_name |-> module_name, filename |-> filename, ast |-> ast, dirty |-> TRUE]

-----------------------------------------------------------------------------
(* The collaborators: the parsers and the visitors *)

\* The module names the source of `module_name` refers to, in the order
\* the tree yields them.
DepsOf(module_name) ==
  IF module_name \in DOMAIN content.deps THEN content.deps[module_name] ELSE <<>>

\* The tree the parser builds from the source of `module_name`.
ParsedTree(module_name) ==
  TreeObject(DepsOf(module_name), TRUE, module_name \in content.templated)

\* builtins.ParsePyTD(filename=..., module=...): an empty file has no
\* declarations.
ParsePyTD(st, filename, module_name) ==
  NewTree(Log(st, "ParsePyTD", module_name, filename, TRUE), module_name,
          IF filename = DEVNULL THEN EmptyTree ELSE ParsedTree(module_name))

\* builtins.ParsePredefinedPyTD(subdir, module_name, version): None unless
\* pytype ships the file; if it does, the file is read and parsed.
ParsePredefinedPyTD(st, subdir, module_name) ==
  IF module_name \in store.pytd[subdir]
  THEN NewTree(Log(st, "ParsePredefinedPyTD", module_name, <<subdir>>, TRUE),
               module_name, ParsedTree(module_name))
  ELSE Return(Log(st, "ParsePredefinedPyTD", module_name, <<subdir>>, FALSE), None)

\* typeshed.parse_type_definition(subdir, module_name, version)
parse_type_definition(st, subdir, module_name) ==
  IF module_name \in store.typeshed[subdir]
  THEN NewTree(Log(st, "parse_type_definition", module_name, <<subdir>>, TRUE),
               module_name, ParsedTree(module_name))
  ELSE Return(Log(st, "parse_type_definition", module_name, <<subdir>>, FALSE), None)

\* pytd_utils.EmptyModule(module_name)
EmptyModule(st, module_name) == NewTree(st, module_name, EmptyTree)

\* visitors.CollectDependencies: deps.modules, in iteration order
CollectDependencies(st, ast) == st.heap[ast].order

\* ast.Visit(visitors.LookupExternalTypes(module_map, full_names=True,
\* self_name=...)): the tree with every reference to another module bound
\* to that module's tree in module_map; the tree itself when it has none.
LookupExternalTypes(st, ast, module_map, self_name) ==
  LET obj == st.heap[ast]
      ext == {n \in DOMAIN obj.refs : n # self_name}
  IN IF ext = {} THEN Return(st, ast)
     ELSE IF \E n \in ext : n \notin DOMAIN module_map
       THEN Raise(st, "KeyError", CHOOSE n \in ext : n \notin DOMAIN module_map)
     ELSE NewVersion(st, ast, 2,
            [obj EXCEPT !.refs = [n \in DOMAIN obj.refs |->
                                    IF n \in ext THEN module_map[n] ELSE obj.refs[n]]])

\* ast.Visit(visitors.InsertSignatureTemplates())
InsertSignatureTemplates(st, ast) ==
  IF st.heap[ast].templated THEN NewVersion(st, ast, 3, st.heap[ast])
  ELSE Return(st, ast)

\* ast.Visit(pytd_utils.AdjustTemplates(lookup))
AdjustTemplates(st, ast, lookup) ==
  IF st.heap[ast].templated THEN NewVersion(st, ast, 4, st.heap[ast])
  ELSE Return(st, ast)

\* ast.Visit(visitors.FillInModuleClasses(module_map)): in place, every
\* reference node whose cls is still None is pointed at the tree module_map
\* has under its module's name, an intra-module one at module_map[""].
FillInModuleClasses(st, ast, module_map) ==
  LET obj == st.heap[ast]
      filled ==
        [obj EXCEPT
           !.refs = [n \in DOMAIN obj.refs |->
                       IF obj.refs[n] = None /\ n \in DOMAIN module_map
                       THEN module_map[n] ELSE obj.refs[n]],
           !.local = IF obj.has_local /\ obj.local = None
                        /\ EMPTY_NAME \in DOMAIN module_map
                     THEN module_map[EMPTY_NAME] ELSE obj.local]
  IN Return([st EXCEPT !.heap = [st.heap EXCEPT ![ast] = filled]], ast)

\* ast.Visit(visitors.VerifyLookup()): raises on a node bound to nothing
VerifyLookup(st, ast) ==
  IF HasUnbound(st.heap, ast) THEN Raise(st, "VerifyLookupError", ast.mod)
  ELSE Return(st, ast)

\* ast.Visit(visitors.VerifyContainers()): the model has no containers
VerifyContainers(st, ast) == Return(st, ast)

-----------------------------------------------------------------------------
(* Loader: the private methods.                                            *)
(*                                                                         *)
(* A statement sequence is a composition, innermost first.  An exception   *)
(* propagates: a step applied to a state with an exception in flight       *)
(* returns that state.  A search loop `for c in candidates: r = try(c);    *)
(* if r: return r` is: try, in order, the candidates before the first one  *)
(* that yields something (each returns None), then that one.               *)

RECURSIVE _import_name(_, _)

\* _postprocess_pyi: four Visit()s; the result is a new tree unless there
\* was nothing to convert.
_postprocess_pyi(st, ast) ==
  IF IsEmptyTree(st.heap[ast]) THEN Return(st, ast)
  ELSE NewVersion(st, ast, 1, st.heap[ast])

\* Invalidate, were the cached view kept.
KeepView(st) == st

\* self._concatenated = None  # invalidate
Invalidate(st) == [st EXCEPT !.concatenated = NoView]

\* Cached, were self._modules not looked in.
NeverCached(st, module_name) == FALSE

\* existing = self._modules.get(module_name); if existing: ...
Cached(st, module_name) == module_name \in DOMAIN st.modules

\* SameFile, were the filenames not compared.
AnyFile(existing, filename) == TRUE

\* if existing.filename != filename: raise AssertionError(...)
SameFile(existing, filename) == existing.filename = filename

\* module = Module(module_name, filename, ast)
\* self._modules[module_name] = module
Register(st, module_name, filename, ast) ==
  [Log(st, "register", module_name, filename, TRUE) EXCEPT
     !.modules = (module_name :> Module(module_name, filename, ast)) @@ st.modules,
     !.stack = Append(st.stack, module_name)]

\* Evict, were the except: clause to re-raise without the del.
LeaveRegistered(st, module_name) == [st EXCEPT !.stack = Front(st.stack)]

\* del self._modules[module_name]  # don't leave half-resolved modules around
Evict(st, module_name) ==
  [Log(st, "evict", module_name, <<>>, TRUE) EXCEPT
     !.modules = [n \in (DOMAIN st.modules) \ {module_name} |-> st.modules[n]],
     !.stack = Front(st.stack)]

\* module.ast = <the tree the call before returned>
SetAst(st, module_name) ==
  [st EXCEPT !.modules = [st.modules EXCEPT ![module_name].ast = st.ret]]

\* raise DependencyNotFoundError(name)
DependencyNotFound(st, name) ==
  Raise(Log(st, "raise", name, <<>>, TRUE), "DependencyNotFoundError", name)

\* AlreadyLoaded, were every name of deps.modules imported.
NeverLoaded(st, name) == FALSE

\* if name not in self._modules: ... (line 129), negated
AlreadyLoaded(st, name) == name \in DOMAIN st.modules

RECURSIVE LoadDependencies(_, _, _, _)
\* for name in deps.modules: ... (lines 128-132), from the i-th name on;
\* `imported`: st is what _import_name returned for the name before it, so
\* `if other_ast is None: raise` is still to come.
LoadDependencies(st, deps, i, imported) ==
  CASE st.exc # "" -> st
    [] imported /\ st.ret = None -> DependencyNotFound(st, deps[i - 1])
    [] i > Len(deps) -> st
    [] AlreadyLoaded(st, deps[i]) -> LoadDependencies(st, deps, i + 1, FALSE)
    [] OTHER -> LoadDependencies(_import_name(st, deps[i]), deps, i + 1, TRUE)

\* if deps.modules: module_map = ...; ast = ast.Visit(LookupExternalTypes(...))
\* (lines 126 and 133-136), the loop between them being done
LookupInModuleMap(st, ast, ast_name) ==
  IF CollectDependencies(st, ast) = <<>> THEN Return(st, ast)
  ELSE LookupExternalTypes(st, ast, ModuleMap(st), ast_name)

\* The end of _load_and_resolve_ast_dependencies, unless the loop raised.
LookupUnlessRaised(st, ast, ast_name) ==
  IF st.exc # "" THEN st ELSE LookupInModuleMap(st, ast, ast_name)

_load_and_resolve_ast_dependencies(st, ast, ast_name) ==
  LookupUnlessRaised(LoadDependencies(st, CollectDependencies(st, ast), 1, FALSE),
                     ast, ast_name)

\* module.ast = module.ast.Visit(visitors.InsertSignatureTemplates())
InsertTemplates(st, module_name) ==
  SetAst(InsertSignatureTemplates(st, st.modules[module_name].ast), module_name)

\* module.ast = module.ast.Visit(pytd_utils.AdjustTemplates(module.ast))
AdjustModuleTemplates(st, module_name) ==
  SetAst(AdjustTemplates(st, st.modules[module_name].ast,
                         st.modules[module_name].ast), module_name)

\* module.ast.Visit(visitors.FillInModuleClasses({"": ast, module_name: ast}))
FillInOwnClasses(st, module_name, ast) ==
  FillInModuleClasses(st, st.modules[module_name].ast,
                      (EMPTY_NAME :> ast) @@ (module_name :> ast))

\* Lines 105-117 of _load_file: st.ret is what
\* _load_and_resolve_ast_dependencies returned.
LoadFileRest(st, module_name, ast) ==
  FillInOwnClasses(
    AdjustModuleTemplates(InsertTemplates(SetAst(st, module_name), module_name),
                          module_name),
    module_name, ast)

\* return module.ast
ReturnModuleAst(st, module_name) ==
  Return([st EXCEPT !.stack = Front(st.stack)], st.modules[module_name].ast)

\* The try statement of _load_file (lines 103-121) once the loop of
\* _load_and_resolve_ast_dependencies is through: its except: clause, or
\* the rest of that call and of the body.
LoadFileEnd(st, module_name, ast) ==
  IF st.exc # "" THEN Evict(st, module_name)
  ELSE ReturnModuleAst(LoadFileRest(LookupInModuleMap(st, ast, module_name),
                                    module_name, ast),
                       module_name)

\* Lines 101-121 of _load_file: st.ret is the postprocessed tree.  The call
\* of _load_and_resolve_ast_dependencies(ast, module_name) is its loop here
\* and its lookup in LoadFileEnd.
LoadNew(st, module_name, filename) ==
  LoadFileEnd(LoadDependencies(Register(st, module_name, filename, st.ret),
                               CollectDependencies(st, st.ret), 1, FALSE),
              module_name, st.ret)

\* if not ast: ast = builtins.ParsePyTD(...); ast = self._postprocess_pyi(ast)
ParseAndPostprocess(st, module_name, filename, ast) ==
  IF ast = None
  THEN _postprocess_pyi(ParsePyTD(st, filename, module_name),
                        ParsePyTD(st, filename, module_name).ret)
  ELSE _postprocess_pyi(st, ast)

_load_file(st, module_name, filename, ast) ==
  CASE ~Cached(st, module_name) ->
         LoadNew(ParseAndPostprocess(Invalidate(st), module_name, filename, ast),
                 module_name, filename)
    [] Cached(st, module_name) /\ ~SameFile(st.modules[module_name], filename) ->
         Raise(Log(Invalidate(st), "conflict", module_name, filename, TRUE),
               "AssertionError", module_name)
    [] OTHER -> Return(Log(Invalidate(st), "cached", module_name, filename, TRUE),
                       st.modules[module_name].ast)

\* ast.Visit(visitors.VerifyLookup()); ast.Visit(visitors.VerifyContainers())
Verify(st, ast) ==
  IF Failed(VerifyLookup(st, ast)) THEN VerifyLookup(st, ast)
  ELSE VerifyContainers(st, ast)

_finish_ast(st, ast) ==
  Verify(FillInModuleClasses(st, ast, (EMPTY_NAME :> ast) @@ ModuleMap(st)), ast)

\* ClearDirty, were the flag left as it is.
LeaveDirty(st, module_name) == st

\* module.dirty = False
ClearDirty(st, module_name) ==
  IF Failed(st) THEN st
  ELSE [st EXCEPT !.modules = [st.modules EXCEPT ![module_name].dirty = FALSE]]

\* The body of the loop of _lookup_all_classes, for one module.
LookupOne(st, module_name) ==
  IF ~st.modules[module_name].dirty THEN st
  ELSE ClearDirty(_finish_ast(st, st.modules[module_name].ast), module_name)

\* The module the loop of _lookup_all_classes takes next.
NextOf(todo) == CHOOSE x \in todo : TRUE

RECURSIVE LookupAllFrom(_, _)
\* for module in self._modules.values(): ... over the modules in `todo`
LookupAllFrom(st, todo) ==
  IF st.exc # "" \/ todo = {} THEN st
  ELSE LookupAllFrom(LookupOne(st, NextOf(todo)), todo \ {NextOf(todo)})

_lookup_all_classes(st) == LookupAllFrom(st, DOMAIN st.modules)

\* if not mod and self.options.typeshed: fall back to typeshed
TypeshedFallback(st, subdir, module_name) ==
  IF st.ret = None /\ options.typeshed
  THEN parse_type_definition(st, subdir, module_name) ELSE st

\* if mod: return self._load_file(...); return None
LoadIfParsed(st, module_name) ==
  IF st.ret # None
  THEN _load_file(st, module_name, PREFIX \o module_name, st.ret)
  ELSE Return(st, None)

_load_builtin(st, subdir, module_name) ==
  LoadIfParsed(TypeshedFallback(ParsePredefinedPyTD(st, subdir, module_name),
                                subdir, module_name),
               module_name)

\* full_path of _load_pyi: imports_map[path], or path + ".pyi"
FullPath(path) ==
  IF ~options.imports_map.is_none THEN options.imports_map.map[path]
  ELSE AddExt(path)

\* Whether _load_pyi gets as far as _load_file.
PyiFound(path) ==
  /\ options.imports_map.is_none \/ path \in DOMAIN options.imports_map.map
  /\ Exists(FullPath(path)) /\ ~IsDir(FullPath(path))

_load_pyi(st, path, module_name) ==
  IF PyiFound(path)
  THEN _load_file(Log(st, "_load_pyi", module_name, path, TRUE),
                  module_name, FullPath(path), None)
  ELSE Return(st, None)

_create_empty(st, module_name, filename) ==
  _load_file(EmptyModule(Log(st, "_create_empty", module_name, filename, TRUE),
                         module_name),
             module_name, filename,
             [mod |-> module_name, gen |-> FreshGen(st, module_name), ver |-> 0])

\* Candidates, were the plain module tried first.
ModuleFirst == <<"module", "init", "dir">>

\* What _import_file tries in one search directory, in its order: the
\* package's __init__, the directory itself, the plain module.
Candidates == <<"init", "dir", "module">>

\* The (directory, candidate) pairs _import_file goes through, in order.
SearchSteps(module_name_split) ==
  [k \in 1..(Len(options.pythonpath) * Len(Candidates)) |->
     [path |-> OsPathJoin(options.pythonpath[((k - 1) \div Len(Candidates)) + 1],
                          module_name_split),
      candidate |-> Candidates[((k - 1) % Len(Candidates)) + 1]]]

\* Whether a step of _import_file yields a module (or raises).
StepFound(step) ==
  IF step.candidate = "init" THEN PyiFound(OsPathJoin2(step.path, "__init__"))
  ELSE IF step.candidate = "dir" THEN IsDir(step.path)
  ELSE PyiFound(step.path)

\* The first index at which `found` holds, or one past the end.
FirstFound(found) ==
  IF \E k \in DOMAIN found : found[k]
  THEN CHOOSE k \in DOMAIN found : found[k] /\ \A j \in 1..(k - 1) : ~found[j]
  ELSE Len(found) + 1

\* The first step of _import_file that yields a module (or raises).
FirstStep(steps) == FirstFound([k \in DOMAIN steps |-> StepFound(steps[k])])

\* The k-th step of the loop of _import_file, the steps before it having
\* returned None and left the loader as it was; past the last step,
\* `return None`.
TryStep(st, module_name, steps, k) ==
  CASE k > Len(steps) -> Return(st, None)
    [] k <= Len(steps) /\ steps[k].candidate = "init" ->
         _load_pyi(st, OsPathJoin2(steps[k].path, "__init__"), module_name)
    [] k <= Len(steps) /\ steps[k].candidate = "dir" ->
         _create_empty(st, module_name,
                       OsPathJoin(steps[k].path, <<"__init__", ".pyi">>))
    [] OTHER -> _load_pyi(st, steps[k].path, module_name)

_import_file(st, module_name, module_name_split) ==
  TryStep(st, module_name, SearchSteps(module_name_split),
          FirstStep(SearchSteps(module_name_split)))

\* Tiers, were the search path tried before the bundled definitions.
SearchPathFirst == <<"pythonpath", "builtins", "stdlib">>

\* The tiers _import_name goes through, in its order.
Tiers == <<"builtins", "pythonpath", "stdlib">>

\* Whether ParsePredefinedPyTD or the typeshed fallback yields a tree.
BuiltinFound(subdir, module_name) ==
  \/ module_name \in store.pytd[subdir]
  \/ options.typeshed /\ module_name \in store.typeshed[subdir]

\* Whether a tier yields a module (or raises).
TierFound(tier, module_name) ==
  IF tier = "pythonpath"
  THEN FirstStep(SearchSteps(Split(module_name)))
         <= Len(SearchSteps(Split(module_name)))
  ELSE BuiltinFound(tier, module_name)

\* The first tier of _import_name that yields a module (or raises).
FirstTier(module_name) ==
  FirstFound([k \in DOMAIN Tiers |-> TierFound(Tiers[k], module_name)])

\* The k-th tier of _import_name; past the last tier, `return None`.
TryTier(st, module_name, k) ==
  CASE k > Len(Tiers) -> Return(st, None)
    [] k <= Len(Tiers) /\ Tiers[k] = "pythonpath" ->
         _import_file(st, module_name, Split(module_name))
    [] OTHER -> _load_builtin(st, Tiers[k], module_name)

\* The state a call starts from when only what it logs is of interest.
Quiet(st) == [st EXCEPT !.log = <<>>]

RECURSIVE Flatten(_, _)
\* logs[i] \o ... \o logs[n]
Flatten(logs, i) == IF i > Len(logs) THEN <<>> ELSE logs[i] \o Flatten(logs, i + 1)

\* The tiers before the k-th, none of which yields a module: each returns
\* None and leaves nothing but its own entries in the log.
SkipTiers(st, module_name, k) ==
  [st EXCEPT !.log = @ \o Flatten([j \in 1..(k - 1) |->
                                     TryTier(Quiet(st), module_name, j).log], 1)]

_import_name(st, module_name) ==
  TryTier(SkipTiers(st, module_name, FirstTier(module_name)), module_name,
          FirstTier(module_name))

-----------------------------------------------------------------------------
(* Loader: the public methods *)

\* return ast, after self._lookup_all_classes() or self._finish_ast(ast)
ReturnAst(st, ast) == IF st.exc # "" THEN st ELSE Return(st, ast)

\* LookupAndReturn, were self._lookup_all_classes() not called.
ReturnWithoutLookup(st) == ReturnAst(st, st.ret)

\* ast = self._import_name(name); self._lookup_all_classes(); return ast
LookupAndReturn(st) == ReturnAst(_lookup_all_classes(st), st.ret)

import_name(st, module_name) == LookupAndReturn(_import_name(st, module_name))

\* sub_module = ".".join(components[0:-level])
RelativeTarget(level) == Join(SliceOffEnd(Split(base_module), level))

import_relative(st, level) ==
  IF base_module = NoName
  THEN Raise(st, "ValueError", NoName)
  ELSE LookupAndReturn(_import_name(st, RelativeTarget(level)))

\* path = self.base_module.split(".")[:-1]; path.append(name)
RelativeNameTarget(name) == Join(Append(SliceOffEnd(Split(base_module), 1), name))

import_relative_name(st, name) ==
  IF base_module = NoName
  THEN Raise(st, "ValueError", NoName)
  ELSE LookupAndReturn(_import_name(st, RelativeNameTarget(name)))

\* self._lookup_all_classes(); self._finish_ast(ast); return ast
FinishAst(st, ast) == IF st.exc # "" THEN st ELSE _finish_ast(st, ast)

FinishAndReturn(st) == ReturnAst(FinishAst(_lookup_all_classes(st), st.ret), st.ret)

\* ast = self._load_and_resolve_ast_dependencies(ast), and the rest
ResolvePostprocessed(st) ==
  FinishAndReturn(_load_and_resolve_ast_dependencies(st, st.ret, NoName))

\* resolve_ast, were the tree loaded as a module of its own.
ResolveByLoading(st, ast) == LookupAndReturn(_load_file(st, ADHOC, ADHOC, ast))

resolve_ast(st, ast) == ResolvePostprocessed(_postprocess_pyi(st, ast))

\* pytd_utils.Concat(*(module.ast for module in self._modules.values()))
Concat(st) == [built |-> TRUE, parts |-> {st.modules[n].ast : n \in DOMAIN st.modules}]

concat_all(st) ==
  IF st.concatenated = NoView
  THEN [Log(st, "Concat", NoName, <<>>, TRUE) EXCEPT !.concatenated = Concat(st)]
  ELSE st

-----------------------------------------------------------------------------
(* Calls and what is left of them *)

\* The state a public method starts from.
Begin ==
  [modules |-> _modules, heap |-> heap, concatenated |-> _concatenated,
   exc |-> "", missing |-> NoName, ret |-> None, stack |-> <<>>,
   raised_stack |-> <<>>, held |-> {last.ret} \ {None}, log |-> <<>>]

\* The trees alive after a call: those of the registry, of the cached view,
\* the one returned, and what they refer to.
Live(st) ==
  LET refs(h) == {st.heap[h].refs[n] : n \in DOMAIN st.heap[h].refs} \cup {st.heap[h].local}
      roots == {st.modules[n].ast : n \in DOMAIN st.modules}
               \cup st.concatenated.parts \cup {st.ret}
      Step(S) == (S \cup UNION {refs(h) : h \in S}) \cap DOMAIN st.heap
      Close[i \in 0..Cardinality(DOMAIN st.heap)] ==
        IF i = 0 THEN roots \cap DOMAIN st.heap ELSE Step(Close[i - 1])
  IN Close[Cardinality(DOMAIN st.heap)]

RegistryChanged(st) ==
  \E i \in DOMAIN st.log : st.log[i].ev \in {"register", "evict"}

\* concat_all built a view in this call.
Built(op, st) == op = "concat_all" /\ st.log # <<>>

\* A view concat_all built was there, or was stale already, when this call
\* added or evicted a module; concat_all building a view ends it.
ViewStale(op, st) ==
  IF RegistryChanged(st) THEN view_stale \/ _concatenated # NoView
  ELSE view_stale /\ ~Built(op, st)

\* How the call before ended if it was this same call, "" if it was not.
Repeats(op, name, level) ==
  IF last.op = op /\ last.name = name /\ last.level = level
  THEN IF last.exc = "" THEN "returned" ELSE last.exc
  ELSE ""

\* The call `op` ended in st: the loader's fields, and the record of it.
Commit(op, name, level, st) ==
  /\ _modules' = st.modules
  /\ heap' = [h \in Live(st) |-> st.heap[h]]
  /\ _concatenated' = st.concatenated
  /\ view_stale' = ViewStale(op, st)
  /\ last' = [op |-> op, name |-> name, level |-> level, exc |-> st.exc,
              missing |-> st.missing, ret |-> st.ret, log |-> st.log,
              raised_stack |-> st.raised_stack, repeats |-> Repeats(op, name, level),
              rebuilt |-> view_stale /\ Built(op, st)]
  /\ UNCHANGED <<env_vars, disk, creatable>>

-----------------------------------------------------------------------------
(* The configurations and environments the loader is run in *)

RECURSIVE SeqsWithoutRepeats(_, _)
\* The sequences of at most k distinct elements of T.
SeqsWithoutRepeats(T, k) ==
  IF k = 0 THEN {<<>>}
  ELSE LET S == SeqsWithoutRepeats(T, k - 1)
       IN S \cup {q \in {Append(r, x) : r \in S, x \in T} :
                     \A i, j \in DOMAIN q : i # j => q[i] # q[j]}

NoImportsMap == [is_none |-> TRUE, map |-> <<>>]

\* What pytype ships: __builtin__ and typing (builtins.GetBuiltinsAndTyping
\* reads them from there), and `extra`.
Shipped(builtins_extra, stdlib_extra, typeshed_builtins, typeshed_stdlib) ==
  [pytd |-> [builtins |-> {BUILTIN, TYPING} \cup builtins_extra,
             stdlib |-> stdlib_extra],
   typeshed |-> [builtins |-> typeshed_builtins, stdlib |-> typeshed_stdlib]]

\* Under d2: the packages a and a.b, the modules a.b.c and m.
TreeDisk ==
  [files |-> {<<"d2", "a", "__init__", ".pyi">>, <<"d2", "a", "b", "__init__", ".pyi">>,
              <<"d2", "a", "b", "c", ".pyi">>, <<"d2", "m", ".pyi">>},
   dirs |-> {D1, D2, <<"d2", "a">>, <<"d2", "a", "b">>}]

\* Dependency graphs over a, a.b, m and a name x that is nowhere: cycles,
\* self-references, and missing modules before and after found ones.
GraphWorlds ==
  {[options |-> [pythonpath |-> <<D1, D2>>, imports_map |-> NoImportsMap,
                 typeshed |-> FALSE],
    base_module |-> NABC,
    store |-> Shipped({}, {}, {}, {}),
    content |-> [deps |-> (NA :> da) @@ (NAB :> dab) @@ (NM :> dm),
                 templated |-> {NM}],
    disk |-> TreeDisk,
    creatable |-> {},
    inputs |-> [names |-> {NA, NAB, NM}, rel_names |-> {},
                levels |-> {}, asts |-> {<<NM>>}]] :
   da \in SeqsWithoutRepeats({NA, NAB, NX}, MaxDeps),
   dab \in SeqsWithoutRepeats({NA, NM, NX}, MaxDeps),
   dm \in SeqsWithoutRepeats({NA}, MaxDeps)}

\* What directory d holds under the name m.
Forms == {"none", "file", "pkg", "dir", "dir+file", "pkg+file"}

FormFiles(d, form) ==
  (IF form \in {"file", "dir+file", "pkg+file"} THEN {d \o <<"m", ".pyi">>} ELSE {})
  \cup (IF form \in {"pkg", "pkg+file"} THEN {d \o <<"m", "__init__", ".pyi">>} ELSE {})
  \cup (IF form \in {"pkg", "dir", "dir+file", "pkg+file"}
        THEN {d \o <<"m", "s", ".pyi">>} ELSE {})

FormDirs(d, form) ==
  {d} \cup (IF form \in {"pkg", "dir", "dir+file", "pkg+file"} THEN {d \o <<"m">>} ELSE {})

\* The name m in every combination of tiers and forms, and its submodule
\* m.s wherever m is a directory.
LayoutWorlds ==
  {[options |-> [pythonpath |-> <<D1, D2>>, imports_map |-> NoImportsMap,
                 typeshed |-> ts],
    base_module |-> NABC,
    store |-> Shipped(IF pb THEN {NM} ELSE {}, IF sl THEN {NM} ELSE {},
                      IF tb THEN {NM} ELSE {}, {}),
    content |-> [deps |-> <<>>, templated |-> {}],
    disk |-> [files |-> FormFiles(D1, f1) \cup FormFiles(D2, f2),
              dirs |-> FormDirs(D1, f1) \cup FormDirs(D2, f2)],
    creatable |-> IF f1 = "none" THEN {<<"d1", "m", ".pyi">>} ELSE {},
    inputs |-> [names |-> {NM, NMS, TYPING}, rel_names |-> {},
                levels |-> {}, asts |-> {}]] :
   ts \in BOOLEAN, pb \in BOOLEAN, tb \in BOOLEAN, sl \in BOOLEAN,
   f1 \in Forms, f2 \in {"none", "file"}}

\* An imports_map (then pythonpath is [""]): the candidate paths of m and
\* the path of x absent from it (<<>>) or mapped to a file, to /dev/null, to
\* a file that is not there, to a directory.
MapOf(ki, km, kx) ==
  LET entries == {<<<<"m", "__init__">>, ki>>, <<<<"m">>, km>>, <<<<"x">>, kx>>}
      keys == {e[1] : e \in {e \in entries : e[2] # <<>>}}
  IN [is_none |-> FALSE,
      map |-> [k \in keys |-> (CHOOSE e \in entries : e[1] = k)[2]]]

MapWorlds ==
  {[options |-> [pythonpath |-> << <<>> >>, imports_map |-> MapOf(ki, km, kx),
                 typeshed |-> FALSE],
    base_module |-> NABC,
    store |-> Shipped({}, {}, {}, {}),
    content |-> [deps |-> <<>>, templated |-> {}],
    disk |-> [files |-> {GEN, DEVNULL}
                        \cup (IF on_disk = "file" THEN {<<"m", ".pyi">>} ELSE {}),
              dirs |-> {GENDIR}
                       \cup (IF on_disk = "dir" THEN {<<"m">>} ELSE {})],
    creatable |-> {},
    inputs |-> [names |-> {NM, NX}, rel_names |-> {}, levels |-> {}, asts |-> {}]] :
   ki \in {<<>>, GEN, DEVNULL},
   km \in {<<>>, GEN, DEVNULL, GONE, GENDIR},
   kx \in {<<>>, GEN, DEVNULL},
   on_disk \in {"none", "file", "dir"}}

\* An environment that creates the missing module x and a file that shadows
\* m.
ChangingWorlds ==
  {[options |-> [pythonpath |-> <<D1, D2>>, imports_map |-> NoImportsMap,
                 typeshed |-> FALSE],
    base_module |-> NABC,
    store |-> Shipped({}, {}, {}, {}),
    content |-> [deps |-> (NA :> da) @@ (NAB :> dab), templated |-> {}],
    disk |-> TreeDisk,
    creatable |-> {<<"d2", "x", ".pyi">>, <<"d1", "m", ".pyi">>},
    inputs |-> [names |-> {NA, NM}, rel_names |-> {}, levels |-> {},
                asts |-> {<<NM, NX>>}]] :
   da \in {<<NAB, NX>>, <<NX, NAB>>, <<NX>>},
   dab \in {<<>>, <<NA>>}}

\* Relative imports from a.b.c, with a.b referring to a or to nothing.
RelativeWorlds ==
  {[options |-> [pythonpath |-> <<D1, D2>>, imports_map |-> NoImportsMap,
                 typeshed |-> FALSE],
    base_module |-> NABC,
    store |-> Shipped({}, {}, {}, {}),
    content |-> [deps |-> (NAB :> dab), templated |-> {}],
    disk |-> TreeDisk,
    creatable |-> {},
    inputs |-> [names |-> {NA, NAB}, rel_names |-> {"c"},
                levels |-> 1..MaxLevel, asts |-> {}]] :
   dab \in {<<>>, <<NA>>}}

\* A loader without a base module.
NoBaseWorlds ==
  {[options |-> [pythonpath |-> <<D1, D2>>, imports_map |-> NoImportsMap,
                 typeshed |-> FALSE],
    base_module |-> NoName,
    store |-> Shipped({}, {}, {}, {}),
    content |-> [deps |-> <<>>, templated |-> {}],
    disk |-> TreeDisk,
    creatable |-> {},
    inputs |-> [names |-> {NM}, rel_names |-> {"c"}, levels |-> {1}, asts |-> {}]]}

Worlds ==
  GraphWorlds \cup LayoutWorlds \cup MapWorlds \cup ChangingWorlds
  \cup RelativeWorlds \cup NoBaseWorlds

-----------------------------------------------------------------------------
(* The specification *)

\* The trees builtins.GetBuiltinsAndTyping() returns: resolved.
BootstrapTree(name) ==
  LET h == [mod |-> name, gen |-> 0, ver |-> 0]
  IN [TreeObject(<<>>, TRUE, FALSE) EXCEPT !.local = h]

BootstrapHandle(name) == [mod |-> name, gen |-> 0, ver |-> 0]

NoCall(op) ==
  [op |-> op, name |-> NoName, level |-> 0, exc |-> "", missing |-> NoName,
   ret |-> None, log |-> <<>>, raised_stack |-> <<>>, repeats |-> "",
   rebuilt |-> FALSE]

\* Loader.__init__
Init ==
  /\ \E w \in Worlds :
       /\ options = w.options
       /\ base_module = w.base_module
       /\ store = w.store
       /\ content = w.content
       /\ disk = w.disk
       /\ creatable = w.creatable
       /\ inputs = w.inputs
  /\ _modules = (BUILTIN :> Module(BUILTIN, PREFIX \o BUILTIN, BootstrapHandle(BUILTIN)))
                @@ (TYPING :> Module(TYPING, PREFIX \o TYPING, BootstrapHandle(TYPING)))
  /\ heap = (BootstrapHandle(BUILTIN) :> BootstrapTree(BUILTIN))
            @@ (BootstrapHandle(TYPING) :> BootstrapTree(TYPING))
  /\ _concatenated = NoView
  /\ view_stale = FALSE
  /\ last = NoCall("__init__")

ImportName ==
  \E module_name \in inputs.names :
    Commit("import_name", module_name, 0, import_name(Begin, module_name))

ImportRelative ==
  \E level \in inputs.levels :
    Commit("import_relative",
           IF base_module = NoName THEN NoName ELSE RelativeTarget(level),
           level, import_relative(Begin, level))

ImportRelativeName ==
  \E name \in inputs.rel_names :
    Commit("import_relative_name",
           IF base_module = NoName THEN NoName ELSE RelativeNameTarget(name),
           0, import_relative_name(Begin, name))

\* resolve_ast on a tree the caller parsed, which refers to modules `deps`
ResolveAst ==
  \E deps \in inputs.asts :
    Commit("resolve_ast", NoName, 0,
           resolve_ast(NewTree(Begin, ADHOC, TreeObject(deps, TRUE, FALSE)),
                       [mod |-> ADHOC, gen |-> FreshGen(Begin, ADHOC), ver |-> 0]))

ConcatAll == Commit("concat_all", NoName, 0, concat_all(Begin))

\* The environment creates a file.
FsCreate ==
  \E p \in creatable :
    /\ disk' = [disk EXCEPT !.files = @ \cup {p}]
    /\ creatable' = creatable \ {p}
    /\ last' = NoCall("fs_create")
    /\ UNCHANGED <<env_vars, _modules, heap, _concatenated, view_stale>>

Next ==
  \/ ImportName
  \/ ImportRelative
  \/ ImportRelativeName
  \/ ResolveAst
  \/ ConcatAll
  \/ FsCreate

Spec == Init /\ [][Next]_vars

-----------------------------------------------------------------------------
(* Properties *)

\* The call named in `last` was import_name, returned a tree, and so did the
\* same call right before it.
Reimported(call) ==
  /\ call.op = "import_name" /\ call.repeats = "returned"
  /\ call.exc = "" /\ call.ret # None

\* The trace has a parse of the source of `name`.
Parses(log, name) ==
  \E i \in DOMAIN log :
    /\ log[i].ev \in {"ParsePyTD", "ParsePredefinedPyTD", "parse_type_definition"}
    /\ log[i].name = name /\ log[i].hit

\* C1: of two successive import_name(n) that both return a tree, the second
\* returns the handle the first returned, does not parse the source of n
\* again, and leaves n in the registry (once: the registry is a map).
C1_SecondImportIsCached ==
  [][(Reimported(last') /\ last.ret # None)
       => /\ last'.ret = last.ret
          /\ ~Parses(last'.log, last'.name)
          /\ last'.name \in DOMAIN _modules']_vars

\* The trace has the registration of `name`.
Registers(log, name) ==
  \E i \in DOMAIN log : log[i].ev = "register" /\ log[i].name = name

\* import_name(M) raised DependencyNotFoundError.
ImportFailed(call) ==
  call.op = "import_name" /\ call.exc = "DependencyNotFoundError"

\* The name is in no search tier.
Nowhere(module_name) == FirstTier(module_name) > Len(Tiers)

\* After import_name(M) failed for a name that is in no tier, M and the
\* modules that were being loaded when the error was raised are not in the
\* registry.
C2_Evicted ==
  ImportFailed(last) =>
    /\ last.name \in Range(last.raised_stack)
    /\ \A n \in Range(last.raised_stack) : n \notin DOMAIN _modules

\* import_name(M) right after import_name(M) failed loads M anew: it parses
\* the source of M and registers it.
C2_Retried ==
  (last'.op = "import_name" /\ last'.repeats = "DependencyNotFoundError")
    => Parses(last'.log, last'.name) /\ Registers(last'.log, last'.name)

\* C2: if import_name(M) fails with DependencyNotFound, M and every module
\* whose load was in progress when the error was raised are absent from the
\* registry afterwards, and an import_name(M) after it does not hit the
\* cache but parses and registers M again.
C2_EvictedAndRetriedAfresh == []C2_Evicted /\ [][C2_Retried]_vars

\* import_name(M) failed with two loads in progress, and failed the same way
\* when called again, having registered M again.
C2_Witness ==
  /\ ImportFailed(last) /\ last.repeats = "DependencyNotFoundError"
  /\ Len(last.raised_stack) >= 2 /\ Registers(last.log, last.name)
  /\ Nowhere(last.missing)

\* The call is one of the public loads.
IsLoad(call) ==
  call.op \in {"import_name", "import_relative", "import_relative_name", "resolve_ast"}

\* C3: whenever a public load raises DependencyNotFound or
\* RegistrationConflict, the registry after the call equals the registry
\* before it: the same names, each with the same source, tree and dirty
\* flag; dependencies that finished loading are not left registered.
C3_FailureRollsBack ==
  [][(IsLoad(last') /\ last'.exc \in {"DependencyNotFoundError", "AssertionError"})
       => _modules' = _modules]_vars

RECURSIVE ReachableIn(_, _)
\* The modules reachable from those in S along references, S included.
ReachableIn(S, k) ==
  IF k = 0 THEN S
  ELSE ReachableIn(S \cup UNION {Range(DepsOf(n)) : n \in S}, k - 1)

\* The modules of the dependency graph of `name`.
GraphOf(name) == ReachableIn({name}, Cardinality(DOMAIN content.deps) + 1)

\* `name` is on a cycle of references.
OnCycle(name) ==
  name \in ReachableIn(Range(DepsOf(name)), Cardinality(DOMAIN content.deps) + 1)

\* The module is registered, not dirty, and its tree has no unbound node.
Complete(n) ==
  /\ n \in DOMAIN _modules
  /\ ~_modules[n].dirty
  /\ ~HasUnbound(heap, _modules[n].ast)

\* C4: if every module of the dependency graph of n can be found (cycles
\* and self-references included), import_name(n) returns a tree, and
\* afterwards every module of the graph is registered, not dirty and
\* without an unbound reference node; this unless a second source for a
\* registered name has turned up (RegistrationConflict).
C4_CyclesResolve ==
  (/\ last.op = "import_name"
   /\ \A n \in GraphOf(last.name) : ~Nowhere(n)
   /\ last.exc # "AssertionError")
    => /\ last.exc = "" /\ last.ret # None
       /\ \A n \in GraphOf(last.name) : Complete(n)

\* import_name of a module on a cycle of three returned.
C4_Witness ==
  /\ last.op = "import_name" /\ last.exc = "" /\ last.ret # None
  /\ OnCycle(last.name) /\ Cardinality(GraphOf(last.name)) >= 3
  /\ \A n \in GraphOf(last.name) : OnCycle(n) /\ Complete(n)

\* The trace has _load_file called for `name` with the source `filename`:
\* the event `ev` says what it did.
LoadsRegistered(log, ev, name, filename) ==
  \E i \in DOMAIN log :
    log[i].ev = ev /\ log[i].name = name /\ log[i].src = filename

\* C5: loading a name that is registered with another source raises
\* RegistrationConflict and leaves the registry as it is; loading it with
\* the source it is registered with returns its tree; so a registered name
\* keeps the source it was registered with.
C5_OneSourcePerName ==
  [][/\ \A n \in DOMAIN _modules :
          /\ \A f \in {last'.log[i].src : i \in DOMAIN last'.log} :
               /\ LoadsRegistered(last'.log, "conflict", n, f)
                    => /\ f # _modules[n].filename
                       /\ last'.exc = "AssertionError"
                       /\ _modules' = _modules
               /\ LoadsRegistered(last'.log, "cached", n, f)
                    => f = _modules[n].filename
          /\ n \in DOMAIN _modules' => _modules'[n].filename = _modules[n].filename
     /\ last'.exc = "AssertionError"
          => \E f \in {last'.log[i].src : i \in DOMAIN last'.log} :
               LoadsRegistered(last'.log, "conflict", last'.name, f)]_vars

\* import_name(m) found m, registered from d2, in d1 and raised.
C5_Witness ==
  /\ last.op = "import_name" /\ last.exc = "AssertionError"
  /\ last.name \in DOMAIN _modules
  /\ \E f \in {last.log[i].src : i \in DOMAIN last.log} :
       /\ LoadsRegistered(last.log, "conflict", last.name, f)
       /\ f # _modules[last.name].filename

\* The name has a bundled definition (pytype's own, or typeshed's when
\* typeshed is enabled).
Bundled(name) ==
  \/ name \in store.pytd["builtins"]
  \/ options.typeshed /\ name \in store.typeshed["builtins"]

\* What the search-path directory d holds under the name: a package (a
\* directory with an initializer file), a bare directory, a module file, or
\* nothing.
FormIn(d, name) ==
  CASE (d \o name \o <<"__init__", ".pyi">>) \in disk.files -> "pkg"
    [] (d \o name \o <<"__init__", ".pyi">>) \notin disk.files
         /\ (d \o name) \in disk.dirs -> "dir"
    [] (d \o name \o <<"__init__", ".pyi">>) \notin disk.files
         /\ (d \o name) \notin disk.dirs
         /\ (d \o name \o <<".pyi">>) \in disk.files -> "file"
    [] OTHER -> "none"

\* The name is in some search-path directory.
OnSearchPath(name) ==
  \E i \in DOMAIN options.pythonpath : FormIn(options.pythonpath[i], name) # "none"

\* The first search-path directory that holds something under the name.
FirstDirOf(name) ==
  options.pythonpath[CHOOSE i \in DOMAIN options.pythonpath :
                       /\ FormIn(options.pythonpath[i], name) # "none"
                       /\ \A j \in 1..(i - 1) : FormIn(options.pythonpath[j], name) = "none"]

\* The search-path tier finds the name.
SearchPathFinds(name) ==
  IF options.imports_map.is_none THEN OnSearchPath(name)
  ELSE TierFound("pythonpath", name)

\* The name was registered when the call began: _load_file found it.
WasRegistered(log, name) ==
  \E i \in DOMAIN log : log[i].ev \in {"cached", "conflict"} /\ log[i].name = name

\* The trace has the tier `subdir` of the bundled store asked for `name`.
Consults(log, subdir, name) ==
  \E i \in DOMAIN log :
    /\ log[i].ev = "ParsePredefinedPyTD"
    /\ log[i].src = <<subdir>> /\ log[i].name = name

\* The call returned the tree of `name`, registered with the source `filename`.
Loaded(call, name, filename) ==
  /\ call.exc = "" /\ name \in DOMAIN _modules
  /\ call.ret = _modules[name].ast
  /\ _modules[name].filename = filename

\* The call registered `name` with the source `filename`, and returned its
\* tree unless a dependency of it could not be found.
Took(call, name, filename) ==
  /\ LoadsRegistered(call.log, "register", name, filename)
  /\ call.exc \in {"", "DependencyNotFoundError"}
  /\ call.exc = "" => Loaded(call, name, filename)

\* C6: a first import_name of a name that has a bundled definition and is
\* in a search-path directory too registers and returns the bundled
\* definition (the source with the bundled prefix); the standard-library
\* tier is asked for a name only when the name has no bundled definition
\* and the search-path tier does not find it.
C6_BundledBeatsSearchPath ==
  last.op = "import_name" =>
    /\ (Bundled(last.name) /\ OnSearchPath(last.name)
          /\ ~WasRegistered(last.log, last.name))
         => Took(last, last.name, PREFIX \o last.name)
    /\ \A n \in {last.log[i].name : i \in DOMAIN last.log} :
         Consults(last.log, "stdlib", n) => ~Bundled(n) /\ ~SearchPathFinds(n)

\* import_name registered the bundled definition of a name that a
\* search-path directory holds too.
C6_Witness ==
  /\ last.op = "import_name" /\ Bundled(last.name) /\ OnSearchPath(last.name)
  /\ Registers(last.log, last.name)
  /\ Loaded(last, last.name, PREFIX \o last.name)

\* The source the search-path tier takes for a name in the directory d.
SourceIn(d, name) ==
  IF FormIn(d, name) = "file" THEN d \o name \o <<".pyi">>
  ELSE d \o name \o <<"__init__", ".pyi">>

\* C7: without a remap table and a bundled definition, a first
\* import_name of a name takes it from the first search-path directory, in
\* list order, that holds something under the name, and there the package
\* (its initializer file) rather than the module file; a directory without
\* an initializer gives an empty tree registered under the name; a
\* submodule inside such a directory is imported like any other name.
C7_SearchPathOrder ==
  (/\ last.op = "import_name" /\ options.imports_map.is_none
   /\ ~Bundled(last.name) /\ OnSearchPath(last.name)
   /\ ~WasRegistered(last.log, last.name))
    => /\ Took(last, last.name, SourceIn(FirstDirOf(last.name), last.name))
       /\ FormIn(FirstDirOf(last.name), last.name) = "dir"
            => last.exc = "" /\ IsEmptyTree(heap[last.ret])

\* import_name of the submodule m.s returned, m being a directory without
\* an initializer in the first search-path directory and registered with an
\* empty tree, a later directory holding a module file m.
C7_Witness ==
  /\ last.op = "import_name" /\ last.name = NMS /\ Registers(last.log, NMS)
  /\ Loaded(last, NMS, D1 \o NMS \o <<".pyi">>)
  /\ FormIn(D1, NM) = "dir" /\ FormIn(D2, NM) = "file"
  /\ NM \in DOMAIN _modules /\ IsEmptyTree(heap[_modules[NM].ast])
  /\ _modules[NM].filename = D1 \o NM \o <<"__init__", ".pyi">>

\* Neither candidate path of the name is a key of the remap table.
NoKey(name) ==
  \A i \in DOMAIN options.pythonpath :
    /\ (options.pythonpath[i] \o name) \notin DOMAIN options.imports_map.map
    /\ (options.pythonpath[i] \o name \o <<"__init__">>)
         \notin DOMAIN options.imports_map.map

\* C8: with a remap table, for a name none of whose candidate paths is a
\* key of the table, the search-path tier finds nothing whatever is on disk
\* under the name (a file or a directory), and no registry entry is made:
\* import_name of such a name, which no other tier has, returns None and
\* leaves it unregistered.
C8_RemapTableBypassesDisk ==
  (/\ last.op = "import_name" /\ ~options.imports_map.is_none
   /\ NoKey(last.name) /\ ~Bundled(last.name)
   /\ last.name \notin store.pytd["stdlib"])
    => /\ last.exc = "" /\ last.ret = None
       /\ last.name \notin DOMAIN _modules

\* C9: for a base module of n components and 1 <= L < n, import_relative(L)
\* resolves the name made of the first n - L components of the base module
\* as import_name of that name does: the same outcome, the same tree, the
\* same registry.
C9_RelativeLevels ==
  [][(/\ last'.op = "import_relative" /\ base_module # NoName
      /\ 1 <= last'.level /\ last'.level < Len(base_module))
       => /\ last'.name = SubSeq(base_module, 1, Len(base_module) - last'.level)
          /\ last'.exc = import_name(Begin, last'.name).exc
          /\ last'.ret = import_name(Begin, last'.name).ret
          /\ _modules' = import_name(Begin, last'.name).modules]_vars

\* import_relative(2) from a.b.c registered a and returned its tree.
C9_Witness ==
  /\ last.op = "import_relative" /\ last.level = 2 /\ base_module = NABC
  /\ last.name = NA /\ Registers(last.log, NA)
  /\ Loaded(last, NA, D2 \o NA \o <<"__init__", ".pyi">>)

\* C10: the view concat_all returns is built from exactly the modules in
\* the registry: a cached view is the concatenation of the trees registered
\* now, and none is cached once a module was added or evicted since it was
\* built, so the next concat_all builds it with that module in it.
C10_ViewMatchesRegistry ==
  /\ _concatenated # NoView
       => _concatenated.parts = {_modules[n].ast : n \in DOMAIN _modules}
  /\ last.op = "concat_all" => _concatenated # NoView
  /\ view_stale => _concatenated = NoView

\* concat_all built a view after a module was added since the view before,
\* and the view has a module beyond the two the loader starts with.
C10_Witness ==
  /\ last.op = "concat_all" /\ last.rebuilt
  /\ Cardinality(_concatenated.parts) > 2
  /\ _concatenated.parts = {_modules[n].ast : n \in DOMAIN _modules}

\* No registered module is dirty.
NoneDirty == \A n \in DOMAIN _modules : ~_modules[n].dirty

\* C11: whenever import_name, import_relative, import_relative_name or
\* resolve_ast returns normally, a module or None for a name that is not
\* found, no module in the registry is dirty: not __builtin__ or typing, not
\* a dependency loaded during the call.
C11_SweepBeforeReturn == (IsLoad(last) /\ last.exc = "") => NoneDirty

\* import_name of a name that is in no tier returned None, and __builtin__
\* and typing, dirty since the loader was made, are clean.
C11_Witness ==
  /\ last.op = "import_name" /\ last.exc = "" /\ last.ret = None
  /\ Nowhere(last.name) /\ last.repeats = ""
  /\ ~_modules[BUILTIN].dirty /\ ~_modules[TYPING].dirty

\* The places in the trace where the event `ev` is logged for `name`.
EventsOf(log, ev, name) ==
  {i \in DOMAIN log : log[i].ev = ev /\ log[i].name = name /\ log[i].hit}

\* The names of the trace.
NamesOf(log) == {log[i].name : i \in DOMAIN log}

\* C12: every public call ends, and within one call the load sequence is
\* started at most once per module name: a name is parsed from a file at
\* most once and registered at most once, and once a module has been
\* registered in the call, _load_file is not entered for a name that is
\* registered (a back-reference to a module being loaded does not get as
\* far as the search).
C12_LoadedOncePerCall ==
  /\ \A n \in NamesOf(last.log) :
       /\ Cardinality(EventsOf(last.log, "register", n)) <= 1
       /\ Cardinality(EventsOf(last.log, "ParsePyTD", n)) <= 1
  /\ \A i, j \in DOMAIN last.log :
       (i < j /\ last.log[i].ev = "register")
         => last.log[j].ev \notin {"cached", "conflict"}

\* import_name of a module on a cycle of three returned, each of the three
\* parsed and registered once in the call.
C12_Witness ==
  /\ last.op = "import_name" /\ last.exc = "" /\ OnCycle(last.name)
  /\ Cardinality(GraphOf(last.name)) >= 3
  /\ \A n \in GraphOf(last.name) :
       /\ OnCycle(n)
       /\ Cardinality(EventsOf(last.log, "register", n)) = 1
       /\ Cardinality(EventsOf(last.log, "ParsePyTD", n)) = 1

\* The references of the registered module m to other modules that are
\* bound.
BoundRefs(m) ==
  {n \in DOMAIN heap[_modules[m].ast].refs :
     n # m /\ heap[_modules[m].ast].refs[n] # None}

\* C13: after a public import returned successfully, every bound reference
\* of a registered module M that names another module N points into the
\* tree the registry holds for N, also when N was registered but not yet
\* linked when M bound it (the far side of a cycle).
C13_RefsShareRegisteredTree ==
  (IsLoad(last) /\ last.exc = "")
    => \A m \in DOMAIN _modules : \A n \in BoundRefs(m) :
         /\ n \in DOMAIN _modules
         /\ heap[_modules[m].ast].refs[n] = _modules[n].ast

\* The intra-module references of the registered module m point into the
\* tree the registry holds for m: the reference to a class of its own, and
\* a reference that names m itself.
OwnRefsInRegisteredTree(m) ==
  /\ (heap[_modules[m].ast].has_local /\ heap[_modules[m].ast].local # None)
       => heap[_modules[m].ast].local = _modules[m].ast
  /\ (m \in DOMAIN heap[_modules[m].ast].refs /\ heap[_modules[m].ast].refs[m] # None)
       => heap[_modules[m].ast].refs[m] = _modules[m].ast

\* C14: when a load has returned, each intra-module reference node of a
\* registered module M is bound to the definition in the tree the registry
\* holds for M, the one the cross-module rewrite, the template synthesis
\* and the template adjustment produced, not a tree of M from before them.
C14_OwnRefsBoundInFinalTree ==
  (IsLoad(last) /\ last.exc = "")
    => \A m \in DOMAIN _modules : OwnRefsInRegisteredTree(m)

\* A registered module that is not dirty has no unbound reference node,
\* and the two modules the loader is made with start dirty.
C15_CleanIsBound ==
  /\ \A n \in DOMAIN _modules :
       ~_modules[n].dirty => ~HasUnbound(heap, _modules[n].ast)
  /\ last.op = "__init__" => \A n \in DOMAIN _modules : _modules[n].dirty

\* A call that raises before the sweep (on a missing dependency, a second
\* source, a missing base module) clears no flag: a module it registered is
\* dirty, and a module registered before is as it was.
C15_ClearedBySweepOnly ==
  (IsLoad(last') /\ last'.exc \in {"DependencyNotFoundError", "AssertionError", "ValueError"})
    => \A n \in DOMAIN _modules' :
         _modules'[n].dirty = (IF n \in DOMAIN _modules THEN _modules[n].dirty ELSE TRUE)

C16_OneNamePerSource ==
  \A n1, n2 \in DOMAIN _modules :
    n1 # n2 => _modules[n1].filename # _modules[n2].filename

\* The remap table maps a candidate path of the name to the discard
\* sentinel, and no candidate path to anything else.
Discarded(name) ==
  /\ ~options.imports_map.is_none
  /\ \E i \in DOMAIN options.pythonpath :
       \E p \in {options.pythonpath[i] \o name,
                  options.pythonpath[i] \o name \o <<"__init__">>} :
         p \in DOMAIN options.imports_map.map /\ options.imports_map.map[p] = DEVNULL
  /\ \A i \in DOMAIN options.pythonpath :
       \A p \in {options.pythonpath[i] \o name,
                  options.pythonpath[i] \o name \o <<"__init__">>} :
         p \in DOMAIN options.imports_map.map => options.imports_map.map[p] = DEVNULL

\* C17: when the remap table maps a candidate path of a name to the discard
\* sentinel, the search-path tier does not find the name: nothing is parsed
\* or registered from the sentinel, and import_name of such a name, which
\* no other tier has and which is not a directory on disk, returns None and
\* leaves it unregistered.
C17_SentinelDiscards ==
  /\ \A i \in DOMAIN last.log :
       last.log[i].ev \in {"ParsePyTD", "register"} => last.log[i].src # DEVNULL
  /\ (/\ last.op = "import_name" /\ Discarded(last.name)
      /\ ~Bundled(last.name) /\ last.name \notin store.pytd["stdlib"]
      /\ ~IsDir(last.name))
       => /\ last.exc = "" /\ last.ret = None
          /\ last.name \notin DOMAIN _modules

\* The modules the tree h refers to, and those they refer to, and so on.
DependenciesOf(hp, h) ==
  ReachableIn(Range(hp[h].order), Cardinality(DOMAIN content.deps) + 1)

\* resolve_ast(t) that returns adds to the registry only dependencies of t,
\* removes nothing, and returns a tree without unbound node.
C18_AddsDependenciesOnly ==
  (last'.op = "resolve_ast" /\ last'.exc = "")
    => /\ DOMAIN _modules \subseteq DOMAIN _modules'
       /\ (DOMAIN _modules') \ (DOMAIN _modules) \subseteq DependenciesOf(heap', last'.ret)
       /\ last'.ret # None /\ last'.ret.mod = ADHOC
       /\ ~HasUnbound(heap', last'.ret)

\* No registry entry holds a tree handed to resolve_ast, and import_name
\* returns none.
C18_NotRegistered ==
  /\ ADHOC \notin DOMAIN _modules
  /\ \A n \in DOMAIN _modules : _modules[n].ast.mod # ADHOC
  /\ last.op = "import_name" => last.ret.mod # ADHOC

\* C18: resolve_ast(t) never registers t: after it returns the registry has
\* the names it had and, beyond them, only modules loaded as transitive
\* dependencies of t; no registry entry holds t's tree, no later
\* import_name returns it, and the returned tree has no unbound reference
\* node.
C18_ResolveAstDoesNotRegister ==
  [][C18_AddsDependenciesOnly]_vars /\ []C18_NotRegistered

\* resolve_ast returned a tree that refers to a module it loaded, the
\* reference bound to that module's registered tree.
C18_Witness ==
  /\ last.op = "resolve_ast" /\ last.exc = "" /\ last.ret.mod = ADHOC
  /\ \E n \in DOMAIN heap[last.ret].refs :
       /\ Registers(last.log, n) /\ n \in DOMAIN _modules
       /\ heap[last.ret].refs[n] = _modules[n].ast

\* A module whose dirty flag is cleared is, after any step, registered as
\* it was (the same source, tree handle and flag), its tree as it was.
C19_CleanStays ==
  \A n \in DOMAIN _modules :
    ~_modules[n].dirty
      => /\ n \in DOMAIN _modules'
         /\ _modules'[n] = _modules[n]
         /\ heap'[_modules'[n].ast] = heap[_modules[n].ast]

\* What a call evicts it registered itself, in a load that was in progress
\* when the exception was raised.
C19_EvictsOwnLoads ==
  \A i \in DOMAIN last'.log :
    last'.log[i].ev = "evict"
      => /\ last'.exc # ""
         /\ last'.log[i].name \in Range(last'.raised_stack)
         /\ last'.log[i].name \notin DOMAIN _modules
         /\ \E j \in 1..(i - 1) :
              last'.log[j].ev = "register" /\ last'.log[j].name = last'.log[i].name

\* C19: once the dirty flag of a registered module has been cleared, then
\* over every later operation (imports that return or fail, resolve_ast,
\* concat_all) the module stays in the registry, its tree handle is not
\* replaced, its flag does not become true again; eviction removes only a
\* module that is still dirty and whose own load is failing.
C19_CleanModulesAreStable == [][C19_CleanStays /\ C19_EvictsOwnLoads]_vars

\* A load failed and evicted what it was loading, next to a module that an
\* earlier call had loaded and swept.
C19_Witness ==
  /\ IsLoad(last) /\ last.exc = "DependencyNotFoundError"
  /\ \E i \in DOMAIN last.log : last.log[i].ev = "evict"
  /\ \E n \in (DOMAIN _modules) \ {BUILTIN, TYPING} :
       ~_modules[n].dirty /\ ~Registers(last.log, n)

\* The bound references of the registered module m to other modules lead
\* to trees of registered modules, of the load the registry has them from.
RefsLeadToRegistered(m) ==
  \A n \in BoundRefs(m) :
    /\ n \in DOMAIN _modules
    /\ heap[_modules[m].ast].refs[n].mod = n
    /\ heap[_modules[m].ast].refs[n].gen = _modules[n].ast.gen

\* C20: after a public load has failed no partially linked module is left
\* in the registry: a module the failing call registered and left has no
\* unbound node, and no registered module has a reference bound to the
\* tree of a module the failure evicted; the same in the states later
\* calls (concat_all, import_name) find.
C20_NothingHalfLinkedAfterFailure ==
  /\ (IsLoad(last) /\ last.exc # "")
       => \A m \in DOMAIN _modules :
            Registers(last.log, m) => ~HasUnbound(heap, _modules[m].ast)
  /\ \A m \in DOMAIN _modules : RefsLeadToRegistered(m)

====
